---------------------------- MODULE Spec2Model ----------------------------
(***************************************************************************)
(* Server actions of the dashboard (app/lib/actions.ts): the six mutations *)
(* over the customers and invoices tables, and authenticate.               *)
(*                                                                         *)
(* A request is one invocation of a server action.  Its atomic steps are   *)
(* the synchronous stretches of the handler between two awaits; every SQL  *)
(* statement executes atomically in the store at the step that awaits it.  *)
(* Strings that the code inspects (trim, email syntax, number coercion)    *)
(* are sequences of one-character strings.  Numbers are fixed-point, in    *)
(* thousandths, so that a non-integer product is representable; this is    *)
(* exact decimal arithmetic, without the rounding of IEEE doubles.         *)
(***************************************************************************)
EXTENDS Integers, Sequences, FiniteSets, TLC

\* ---------------------------------------------------------------- bounds
\* Primary keys the store can hand out (the uuid space, made finite).
MaxCustomers == 2
MaxInvoices == 1

CustIds == 1..MaxCustomers
InvIds == 1..MaxInvoices
\* The id '' (falsy in `if (customerId)`), which is no row's id.
EmptyId == 0

Requests == {"r1", "r2"}

\* --------------------------------------------------------------- strings
Space == " "
DigitChars == <<"0", "1", "2", "3", "4", "5", "6", "7", "8", "9">>
Digits == {DigitChars[i] : i \in 1..10}
Letters == {"a", "b", "c", "o", "x", "A", "l"}

RECURSIVE TrimStart(_)
TrimStart(s) ==
    IF s # <<>> /\ Head(s) = Space THEN TrimStart(Tail(s)) ELSE s

RECURSIVE TrimEnd(_)
TrimEnd(s) ==
    IF s # <<>> /\ s[Len(s)] = Space THEN TrimEnd(SubSeq(s, 1, Len(s) - 1)) ELSE s

\* String.prototype.trim, as z.string().trim() applies it.
Trim(s) == TrimEnd(TrimStart(s))

\* The labels of a domain, split at ".".
RECURSIVE Split(_, _)
Split(s, sep) ==
    IF \E i \in 1..Len(s) : s[i] = sep
    THEN LET i == CHOOSE k \in 1..Len(s) :
                      s[k] = sep /\ \A j \in 1..(k - 1) : s[j] # sep
         IN  <<SubSeq(s, 1, i - 1)>> \o Split(SubSeq(s, i + 1, Len(s)), sep)
    ELSE <<s>>

\* z.string().email(): the library's pattern
\*   ^(?!\.)(?!.*\.\.)([A-Z0-9_'+\-\.]*)[A-Z0-9_+-]@([A-Z0-9][A-Z0-9\-]*\.)+[A-Z]{2,}$
\* (case-insensitive), over the alphabet of the model.
IsEmail(s) ==
    LET ats == {i \in 1..Len(s) : s[i] = "@"}
        alnum == Letters \cup Digits
    IN  /\ Cardinality(ats) = 1
        /\ LET p == CHOOSE i \in ats : TRUE
               local == SubSeq(s, 1, p - 1)
               labels == Split(SubSeq(s, p + 1, Len(s)), ".")
           IN  /\ local # <<>>
               /\ local[1] # "."
               /\ \A i \in 1..(Len(s) - 1) : ~(s[i] = "." /\ s[i + 1] = ".")
               /\ \A i \in 1..Len(local) : local[i] \in alnum \cup {".", "-", "+", "_"}
               /\ local[Len(local)] \in alnum \cup {"-", "+", "_"}
               /\ Len(labels) >= 2
               /\ \A k \in 1..Len(labels) :
                      /\ labels[k] # <<>>
                      /\ labels[k][1] \in alnum
                      /\ \A i \in 1..Len(labels[k]) : labels[k][i] \in alnum \cup {"-"}
               /\ LET tld == labels[Len(labels)]
                  IN  Len(tld) >= 2 /\ \A i \in 1..Len(tld) : tld[i] \in Letters

\* --------------------------------------------------------------- numbers
\* A number is [nan, milli]: milli is the value in thousandths.
Milli == 10 * 10 * 10
NaN == [nan |-> TRUE, milli |-> 0]
Num(m) == [nan |-> FALSE, milli |-> m]

DigitVal(c) == CHOOSE d \in 0..9 : DigitChars[d + 1] = c

\* The value of a digit string as an integer.
RECURSIVE IntOf(_)
IntOf(ds) ==
    IF ds = <<>> THEN 0
    ELSE 10 * IntOf(SubSeq(ds, 1, Len(ds) - 1)) + DigitVal(ds[Len(ds)])

\* The value of the digits after the point, in thousandths (at most three).
FracOf(ds) ==
    IntOf(ds) * (CASE Len(ds) = 0 -> 1 [] Len(ds) = 1 -> 100
                   [] Len(ds) = 2 -> 10 [] OTHER -> 1)

\* Number(string): surrounding white space is dropped, '' is 0, an optional
\* sign, then digits with an optional point; anything else is NaN.
\* (Exponents, hex and Infinity literals are outside the model's alphabet.)
Number(str) ==
    LET s == Trim(str)
        neg == s # <<>> /\ Head(s) = "-"
        body == IF s # <<>> /\ Head(s) \in {"-", "+"} THEN Tail(s) ELSE s
        parts == Split(body, ".")
        allDigits(ds) == \A i \in 1..Len(ds) : ds[i] \in Digits
    IN  IF s = <<>> THEN Num(0)
        ELSE IF /\ Len(parts) \in {1, 2}
                /\ \A k \in 1..Len(parts) : allDigits(parts[k])
                /\ \E k \in 1..Len(parts) : parts[k] # <<>>
                /\ Len(parts) = 2 => Len(parts[2]) <= 3
             THEN LET m == IntOf(parts[1]) * Milli
                           + (IF Len(parts) = 2 THEN FracOf(parts[2]) ELSE 0)
                  IN  Num(IF neg THEN 0 - m ELSE m)
             ELSE NaN

\* amount * 100 (actions.ts: const amountInCents = amount * 100).
Times100(n) == IF n.nan THEN NaN ELSE Num(n.milli * 100)

IsInteger(n) == ~n.nan /\ n.milli % Milli = 0

\* ----------------------------------------------------------------- forms
\* A form is a record of the fields that were submitted; formData.get of a
\* field that is not there is null.
Has(form, k) == k \in DOMAIN form

Fields == {"customerId", "amount", "status", "name", "email"}
NoErrors == [f \in Fields |-> <<>>]

\* CreateInvoice.safeParse / UpdateInvoice.safeParse (FormSchema without id
\* and date).  fieldErrors lists a field only when it has messages: here a
\* field without messages maps to the empty sequence.
\* (.gte(0) for .gt(0))
AmountGeZero(n) == n.milli >= 0

AmountGtZero(n) == n.milli > 0

InvoiceSafeParse(form) ==
    LET amount == IF Has(form, "amount") THEN Number(form.amount) ELSE Num(0)
        cidErr == IF Has(form, "customerId") THEN <<>>
                  ELSE <<"Please select a customer.">>
        amtErr == IF amount.nan THEN <<"Expected number, received nan">>
                  ELSE IF AmountGtZero(amount) THEN <<>>
                  ELSE <<"Please enter an amount greater than $0.">>
        stErr == IF ~Has(form, "status") THEN <<"Please select an invoice status.">>
                 ELSE IF form.status \in {"pending", "paid"} THEN <<>>
                 ELSE <<"Invalid enum value.">>
        ok == cidErr = <<>> /\ amtErr = <<>> /\ stErr = <<>>
    IN  [success |-> ok,
         errors |-> [NoErrors EXCEPT !.customerId = cidErr, !.amount = amtErr,
                                     !.status = stErr],
         data |-> IF ok THEN [customerId |-> form.customerId, amount |-> amount,
                              status |-> form.status]
                  ELSE <<>>]

\* CreateCustomer.safeParse / UpdateCustomer.safeParse (CustomerFormSchema
\* without id): both strings are trimmed before they are checked, and the
\* trimmed strings are the data.
CustomerSafeParse(form) ==
    LET nameErr == IF ~Has(form, "name") THEN <<"Expected string, received null">>
                   ELSE IF Len(Trim(form.name)) >= 1 THEN <<>>
                   ELSE <<"Name is required">>
        emailErr == IF ~Has(form, "email") THEN <<"Expected string, received null">>
                    ELSE IF IsEmail(Trim(form.email)) THEN <<>>
                    ELSE <<"Invalid email address">>
        ok == nameErr = <<>> /\ emailErr = <<>>
    IN  [success |-> ok,
         errors |-> [NoErrors EXCEPT !.name = nameErr, !.email = emailErr],
         data |-> IF ok THEN [name |-> Trim(form.name), email |-> Trim(form.email)]
                  ELSE <<>>]

\* ---------------------------------------------------------------- inputs
AtXCo == <<"@", "x", ".", "c", "o">>
EmailA == <<"a">> \o AtXCo
EmailB == <<"b">> \o AtXCo
EmailC == <<"c">> \o AtXCo
NameAl == <<"A", "l">>

Amount4999 == <<"4", "9", ".", "9", "9">>
AmountInputs ==
    {Amount4999, <<"0", ".", "0", "0", "5">>, <<"0">>, <<"-", "5">>, <<"a">>, <<>>}
\* ('paid' is accepted like 'pending'; one accepted status keeps the table small)
StatusInputs == {"pending", "void"}
NameInputs == {<<Space>> \o NameAl, <<Space>>}
EmailInputs == {EmailA, <<Space>> \o EmailA \o <<Space>>, EmailB, <<"a", "b">>}

\* Forms with every field, with one field missing, and the empty form.
InvoiceForms ==
    {[customerId |-> c, amount |-> a, status |-> s] :
        c \in CustIds, a \in AmountInputs, s \in StatusInputs}
    \cup {[amount |-> Amount4999, status |-> s] : s \in StatusInputs}
    \cup {[customerId |-> c, status |-> "pending"] : c \in CustIds}
    \cup {[customerId |-> c, amount |-> Amount4999] : c \in CustIds}
    \cup {<<>>}

CustomerForms ==
    {[name |-> n, email |-> e] : n \in NameInputs, e \in EmailInputs}
    \cup {[email |-> EmailA], [name |-> NameAl]}

\* The forms of two requests that run at the same time; their email is one
\* that no row of the store holds when they start.
ConcInvoiceForms ==
    {[customerId |-> c, amount |-> <<"1">>, status |-> s] :
        c \in CustIds, s \in {"pending", "void"}}
ConcCustomerForms == {[name |-> NameAl, email |-> e] : e \in {EmailC, <<"a", "b">>}}

\* ----------------------------------------------------------------- state
VARIABLES
    customers,  \* the customers table: rows [id, name, email]
    invoices,   \* the invoices table: rows [id, customer_id, amount, status]
    pc,         \* per request: idle, or the await the handler is at, or done
    call,       \* per request: the action invoked, its id argument, its form
    data,       \* per request: validatedFields.data
    before,     \* per request: the tables when the action was invoked
    log,        \* per request: the steps the handler has taken, in order
                \* ("error": the statement just issued failed; a path:
                \* revalidatePath of that path)
    result      \* per request: what the action returned, or how it ended

vars == <<customers, invoices, pc, call, data, before, log, result>>

\* (image_url, always '' on insert, and the invoice's date are left out:
\* no rule of the actions reads them.)
CustomerRow(id, name, email) == [id |-> id, name |-> name, email |-> email]
InvoiceRow(id, customerId, amount, status) ==
    [id |-> id, customer_id |-> customerId, amount |-> amount, status |-> status]

InvoicesPath == "/dashboard/invoices"
CustomersPath == "/dashboard/customers"

NoCall == [op |-> "none", id |-> EmptyId, form |-> <<>>]
NoTables == [customers |-> {}, invoices |-> {}]
NoResult ==
    [kind |-> "none", hasErrors |-> FALSE, errors |-> NoErrors, message |-> "",
     path |-> ""]
\* return { errors, message } / return { message } / return 'text'
Return(hasErrors, errors, message) ==
    [kind |-> "return", hasErrors |-> hasErrors, errors |-> errors,
     message |-> message, path |-> ""]
\* redirect(path): ends the action by a navigation signal, returns nothing
Redirect(path) ==
    [kind |-> "redirect", hasErrors |-> FALSE, errors |-> NoErrors, message |-> "",
     path |-> path]
\* an exception that leaves the action
Throw(error) ==
    [kind |-> "throw", hasErrors |-> FALSE, errors |-> NoErrors, message |-> error,
     path |-> ""]

\* The tables a well-formed store can hold when requests start: ids are
\* keys, emails are distinct, every invoice references a customer.
SeedEmails == {EmailA, EmailB}
SeedAmount == Times100(Number(Amount4999))
SeedCustomers ==
    UNION {{{CustomerRow(i, NameAl, f[i]) : i \in S} :
               f \in {g \in [S -> SeedEmails] :
                         \A i, j \in S : i # j => g[i] # g[j]}} :
           S \in SUBSET CustIds}
SeedInvoices(custs) ==
    UNION {{{InvoiceRow(i, f[i], SeedAmount, "pending") : i \in S} :
               f \in [S -> {c.id : c \in custs}]} :
           S \in SUBSET InvIds}

Init ==
    /\ customers \in SeedCustomers
    /\ invoices \in SeedInvoices(customers)
    /\ pc = [r \in Requests |-> "idle"]
    /\ call = [r \in Requests |-> NoCall]
    /\ data = [r \in Requests |-> <<>>]
    /\ before = [r \in Requests |-> NoTables]
    /\ log = [r \in Requests |-> <<>>]
    /\ result = [r \in Requests |-> NoResult]

\* ------------------------------------------------------------- the store
\* (the update's query without its AND ID != customerId)
isEmailUnique_NoExclusion(email, customerId, rows) ==
    ~\E c \in rows : c.email = email

\* (ID = customerId for ID != customerId)
isEmailUnique_SameId(email, customerId, rows) ==
    IF customerId # EmptyId
    THEN ~\E c \in rows : c.email = email /\ c.id = customerId
    ELSE ~\E c \in rows : c.email = email

\* SELECT CASE WHEN EXISTS (SELECT 1 FROM CUSTOMERS WHERE EMAIL = email
\* [AND ID != customerId]) THEN 0 ELSE 1 END, and rows[0].case === 1.
\* createCustomer passes no customerId, which is falsy like ''.
isEmailUnique(email, customerId, rows) ==
    IF customerId # EmptyId
    THEN ~\E c \in rows : c.email = email /\ c.id # customerId
    ELSE ~\E c \in rows : c.email = email

\* (the invoice's ID for its CUSTOMER_ID)
isAssignedToAnyInvoice_ById(id, rows) == \E i \in rows : i.id = id

\* SELECT CASE WHEN EXISTS (SELECT 1 FROM INVOICES WHERE CUSTOMER_ID = id)
\* THEN 1 ELSE 0 END, and rows[0].case === 0 lets the delete go on.
isAssignedToAnyInvoice(id, rows) == \E i \in rows : i.customer_id = id

\* UPDATE customers SET name, email WHERE id
UpdateCustomerRows(rows, id, name, email) ==
    {IF c.id = id THEN CustomerRow(id, name, email) ELSE c : c \in rows}

\* UPDATE invoices SET customer_id, amount, status WHERE id
UpdateInvoiceRows(rows, id, customerId, amount, status) ==
    {IF i.id = id THEN InvoiceRow(id, customerId, amount, status) ELSE i : i \in rows}

\* ------------------------------------------------------------ bookkeeping
Invoke(r, op, id, form) ==
    /\ pc[r] = "idle"
    /\ call' = [call EXCEPT ![r] = [op |-> op, id |-> id, form |-> form]]
    /\ before' = [before EXCEPT ![r] = [customers |-> customers, invoices |-> invoices]]

\* The handler goes on to its next await.
Goto(r, where, steps) ==
    /\ pc' = [pc EXCEPT ![r] = where]
    /\ log' = [log EXCEPT ![r] = @ \o steps]
    /\ result' = result

\* The handler ends.
Done(r, res, steps) ==
    /\ pc' = [pc EXCEPT ![r] = "done"]
    /\ log' = [log EXCEPT ![r] = @ \o steps]
    /\ result' = [result EXCEPT ![r] = res]

At(r, op, where) == pc[r] = where /\ call[r].op = op

\* --------------------------------------------------------------- invoices
\* createInvoice, to its first await: validate, prepare the data.
createInvoice(r, Forms) ==
    \E form \in Forms :
        LET validatedFields == InvoiceSafeParse(form)
        IN  /\ Invoke(r, "createInvoice", EmptyId, form)
            /\ IF ~validatedFields.success
               THEN /\ Done(r, Return(TRUE, validatedFields.errors,
                                      "Missing Fields. Failed to Create Invoice."),
                            <<"validate", "return">>)
                    /\ data' = data
               ELSE /\ Goto(r, "persist", <<"validate">>)
                    /\ data' = [data EXCEPT ![r] = validatedFields.data]
            /\ UNCHANGED <<customers, invoices>>

\* createInvoice, from the INSERT on: the statement stores a row under a new
\* key, or fails; then revalidatePath and redirect, or the catch's message.
\* (With every key of InvIds in use the INSERT can only fail: the key space
\* is bounded here, and a key freed by a DELETE may be handed out again.)
createInvoice_INSERT(r) ==
    /\ At(r, "createInvoice", "persist")
    /\ \/ \E id \in InvIds \ {i.id : i \in invoices} :
            /\ invoices' = invoices \cup
                   {InvoiceRow(id, data[r].customerId, Times100(data[r].amount),
                               data[r].status)}
            /\ Done(r, Redirect(InvoicesPath), <<"persist", InvoicesPath, "redirect">>)
       \/ /\ invoices' = invoices
          /\ Done(r, Return(FALSE, NoErrors, "Database Error: Failed to Create Invoice."),
                  <<"persist", "error", "return">>)
    /\ UNCHANGED <<customers, call, data, before>>

\* updateInvoice(id), to its first await.
updateInvoice(r, Forms) ==
    \E id \in InvIds, form \in Forms :
        LET validatedFields == InvoiceSafeParse(form)
        IN  /\ Invoke(r, "updateInvoice", id, form)
            /\ IF ~validatedFields.success
               THEN /\ Done(r, Return(TRUE, validatedFields.errors,
                                      "Missing Fields. Failed to Update Invoice."),
                            <<"validate", "return">>)
                    /\ data' = data
               ELSE /\ Goto(r, "persist", <<"validate">>)
                    /\ data' = [data EXCEPT ![r] = validatedFields.data]
            /\ UNCHANGED <<customers, invoices>>

\* updateInvoice(id), from the UPDATE on.
updateInvoice_UPDATE(r) ==
    /\ At(r, "updateInvoice", "persist")
    /\ \/ /\ invoices' = UpdateInvoiceRows(invoices, call[r].id, data[r].customerId,
                                           Times100(data[r].amount), data[r].status)
          /\ Done(r, Redirect(InvoicesPath), <<"persist", InvoicesPath, "redirect">>)
       \/ /\ invoices' = invoices
          /\ Done(r, Return(FALSE, NoErrors, "Database Error: Failed to Update Invoice."),
                  <<"persist", "error", "return">>)
    /\ UNCHANGED <<customers, call, data, before>>

\* deleteInvoice(id), to its first await: nothing is validated.
deleteInvoice(r) ==
    \E id \in InvIds :
        /\ Invoke(r, "deleteInvoice", id, <<>>)
        /\ Goto(r, "persist", <<>>)
        /\ UNCHANGED <<customers, invoices, data>>

\* (revalidatePath moved behind the try: it runs after a failed DELETE too)
deleteInvoice_DELETE_Revalidates(r) ==
    /\ At(r, "deleteInvoice", "persist")
    /\ \/ /\ invoices' = {i \in invoices : i.id # call[r].id}
          /\ Done(r, Return(FALSE, NoErrors, "Deleted Invoice."),
                  <<"persist", InvoicesPath, "return">>)
       \/ /\ invoices' = invoices
          /\ Done(r, Return(FALSE, NoErrors, "Database Error: Failed to Delete Invoice."),
                  <<"persist", "error", InvoicesPath, "return">>)
    /\ UNCHANGED <<customers, call, data, before>>

\* deleteInvoice(id), from the DELETE on.
deleteInvoice_DELETE(r) ==
    /\ At(r, "deleteInvoice", "persist")
    /\ \/ /\ invoices' = {i \in invoices : i.id # call[r].id}
          /\ Done(r, Return(FALSE, NoErrors, "Deleted Invoice."),
                  <<"persist", InvoicesPath, "return">>)
       \/ /\ invoices' = invoices
          /\ Done(r, Return(FALSE, NoErrors, "Database Error: Failed to Delete Invoice."),
                  <<"persist", "error", "return">>)
    /\ UNCHANGED <<customers, call, data, before>>

\* -------------------------------------------------------------- customers
\* createCustomer, to its first await (the query of isEmailUnique).
createCustomer(r, Forms) ==
    \E form \in Forms :
        LET validatedFields == CustomerSafeParse(form)
        IN  /\ Invoke(r, "createCustomer", EmptyId, form)
            /\ IF ~validatedFields.success
               THEN /\ Done(r, Return(TRUE, validatedFields.errors,
                                      "Missing Fields. Failed to Create Customer."),
                            <<"validate", "return">>)
                    /\ data' = data
               ELSE /\ Goto(r, "check", <<"validate">>)
                    /\ data' = [data EXCEPT ![r] = validatedFields.data]
            /\ UNCHANGED <<customers, invoices>>

\* updateCustomer(id), to its first await (the query of isEmailUnique).
updateCustomer(r, Forms) ==
    \E id \in CustIds \cup {EmptyId}, form \in Forms :
        LET validatedFields == CustomerSafeParse(form)
        IN  /\ Invoke(r, "updateCustomer", id, form)
            /\ IF ~validatedFields.success
               THEN /\ Done(r, Return(TRUE, validatedFields.errors,
                                      "Missing Fields. Failed to Create Customer."),
                            <<"validate", "return">>)
                    /\ data' = data
               ELSE /\ Goto(r, "check", <<"validate">>)
                    /\ data' = [data EXCEPT ![r] = validatedFields.data]
            /\ UNCHANGED <<customers, invoices>>

\* The custom validation of createCustomer and updateCustomer: the query of
\* isEmailUnique answers, or fails; it is awaited outside any try.
customer_isEmailUnique(r) ==
    /\ pc[r] = "check"
    /\ call[r].op \in {"createCustomer", "updateCustomer"}
    /\ \/ IF isEmailUnique(data[r].email, call[r].id, customers)
          THEN Goto(r, "persist", <<"check">>)
          ELSE Done(r, Return(TRUE, [NoErrors EXCEPT !.email = <<"Email is already is use.">>],
                              "Missing Fields. Failed to Create Customer."),
                    <<"check", "return">>)
       \/ Done(r, Throw("SqlError"), <<"check", "error", "throw">>)
    /\ UNCHANGED <<customers, invoices, call, data, before>>

\* (the uniqueness check made again by the INSERT itself, in one statement)
createCustomer_INSERT_Atomic(r) ==
    /\ At(r, "createCustomer", "persist")
    /\ \/ /\ isEmailUnique(data[r].email, EmptyId, customers)
          /\ \E id \in CustIds \ {c.id : c \in customers} :
                /\ customers' = customers \cup {CustomerRow(id, data[r].name, data[r].email)}
                /\ Done(r, Redirect(CustomersPath), <<"persist", CustomersPath, "redirect">>)
       \/ /\ ~isEmailUnique(data[r].email, EmptyId, customers)
          /\ customers' = customers
          /\ Done(r, Return(TRUE, [NoErrors EXCEPT !.email = <<"Email is already is use.">>],
                            "Missing Fields. Failed to Create Customer."),
                  <<"persist", "return">>)
       \/ /\ customers' = customers
          /\ Done(r, Return(FALSE, NoErrors, "Database Error: Failed to Create Customer."),
                  <<"persist", "error", "return">>)
    /\ UNCHANGED <<invoices, call, data, before>>

\* createCustomer, from the INSERT on.
createCustomer_INSERT(r) ==
    /\ At(r, "createCustomer", "persist")
    /\ \/ \E id \in CustIds \ {c.id : c \in customers} :
            /\ customers' = customers \cup {CustomerRow(id, data[r].name, data[r].email)}
            /\ Done(r, Redirect(CustomersPath), <<"persist", CustomersPath, "redirect">>)
       \/ /\ customers' = customers
          /\ Done(r, Return(FALSE, NoErrors, "Database Error: Failed to Create Customer."),
                  <<"persist", "error", "return">>)
    /\ UNCHANGED <<invoices, call, data, before>>

\* updateCustomer(id), from the UPDATE on.
updateCustomer_UPDATE(r) ==
    /\ At(r, "updateCustomer", "persist")
    /\ \/ /\ customers' = UpdateCustomerRows(customers, call[r].id, data[r].name,
                                             data[r].email)
          /\ Done(r, Redirect(CustomersPath), <<"persist", CustomersPath, "redirect">>)
       \/ /\ customers' = customers
          /\ Done(r, Return(FALSE, NoErrors, "Database Error: Failed to Update Customer."),
                  <<"persist", "error", "return">>)
    /\ UNCHANGED <<invoices, call, data, before>>

\* deleteCustomer(id), to its first await (the delete-guard query).
deleteCustomer(r) ==
    \E id \in CustIds :
        /\ Invoke(r, "deleteCustomer", id, <<>>)
        /\ Goto(r, "guard", <<>>)
        /\ UNCHANGED <<customers, invoices, data>>

\* deleteCustomer(id): the delete-guard query answers, or fails.
deleteCustomer_SELECT(r) ==
    /\ At(r, "deleteCustomer", "guard")
    /\ \/ IF ~isAssignedToAnyInvoice(call[r].id, invoices)
          THEN Goto(r, "persist", <<"guard">>)
          ELSE Done(r, Return(FALSE, NoErrors,
                              "Cannot delete Customer who is already assigned to any Invoice."),
                    <<"guard", "return">>)
       \/ Done(r, Return(FALSE, NoErrors, "Database Error: Failed to Delete Customer."),
               <<"guard", "error", "return">>)
    /\ UNCHANGED <<customers, invoices, call, data, before>>

\* (the delete-guard made again by the DELETE itself, in one statement)
deleteCustomer_DELETE_Guarded(r) ==
    /\ At(r, "deleteCustomer", "persist")
    /\ \/ /\ ~isAssignedToAnyInvoice(call[r].id, invoices)
          /\ customers' = {c \in customers : c.id # call[r].id}
          /\ Done(r, Return(FALSE, NoErrors, "Deleted Customer."),
                  <<"persist", CustomersPath, "return">>)
       \/ /\ isAssignedToAnyInvoice(call[r].id, invoices)
          /\ customers' = customers
          /\ Done(r, Return(FALSE, NoErrors,
                            "Cannot delete Customer who is already assigned to any Invoice."),
                  <<"persist", "return">>)
       \/ /\ customers' = customers
          /\ Done(r, Return(FALSE, NoErrors, "Database Error: Failed to Delete Customer."),
                  <<"persist", "error", "return">>)
    /\ UNCHANGED <<invoices, call, data, before>>

\* deleteCustomer(id), from the DELETE on.
deleteCustomer_DELETE(r) ==
    /\ At(r, "deleteCustomer", "persist")
    /\ \/ /\ customers' = {c \in customers : c.id # call[r].id}
          /\ Done(r, Return(FALSE, NoErrors, "Deleted Customer."),
                  <<"persist", CustomersPath, "return">>)
       \/ /\ customers' = customers
          /\ Done(r, Return(FALSE, NoErrors, "Database Error: Failed to Delete Customer."),
                  <<"persist", "error", "return">>)
    /\ UNCHANGED <<invoices, call, data, before>>

\* ----------------------------------------------------------- authenticate
\* What signIn('credentials', formData) can do: resolve, or throw an
\* AuthError of some type, or throw anything else.
SignInOutcomes ==
    {[thrown |-> FALSE, auth |-> FALSE, type |-> ""],
     [thrown |-> TRUE, auth |-> TRUE, type |-> "CredentialsSignin"],
     [thrown |-> TRUE, auth |-> TRUE, type |-> "CallbackRouteError"],
     [thrown |-> TRUE, auth |-> TRUE, type |-> "AccessDenied"],
     [thrown |-> TRUE, auth |-> FALSE, type |-> "TypeError"]}

\* (the switch without its default: other AuthErrors fall through to throw)
AuthResult_NoDefault(outcome) ==
    IF ~outcome.thrown THEN Return(FALSE, NoErrors, "")
    ELSE IF outcome.auth /\ outcome.type = "CredentialsSignin"
         THEN Return(FALSE, NoErrors, "Invalid credentials.")
         ELSE Throw(outcome.type)

\* The catch of authenticate.
AuthResult(outcome) ==
    IF ~outcome.thrown THEN Return(FALSE, NoErrors, "")
    ELSE IF outcome.auth
         THEN (IF outcome.type = "CredentialsSignin"
               THEN Return(FALSE, NoErrors, "Invalid credentials.")
               ELSE Return(FALSE, NoErrors, "Something went wrong."))
         ELSE Throw(outcome.type)

\* authenticate, to its await of signIn.
authenticate(r) ==
    /\ Invoke(r, "authenticate", EmptyId, <<>>)
    /\ Goto(r, "signIn", <<>>)
    /\ UNCHANGED <<customers, invoices, data>>

\* authenticate, from the end of signIn on; data keeps what signIn did.
authenticate_signIn(r) ==
    /\ At(r, "authenticate", "signIn")
    /\ \E outcome \in SignInOutcomes :
        /\ data' = [data EXCEPT ![r] = outcome]
        /\ Done(r, AuthResult(outcome),
                <<"signIn", IF AuthResult(outcome).kind = "throw" THEN "throw" ELSE "return">>)
    /\ UNCHANGED <<customers, invoices, call, before>>

\* ------------------------------------------------------------------ specs
\* The request is over; its slot serves the next one.
Finish(r) ==
    /\ pc[r] = "done"
    /\ pc' = [pc EXCEPT ![r] = "idle"]
    /\ call' = [call EXCEPT ![r] = NoCall]
    /\ data' = [data EXCEPT ![r] = <<>>]
    /\ before' = [before EXCEPT ![r] = NoTables]
    /\ log' = [log EXCEPT ![r] = <<>>]
    /\ result' = [result EXCEPT ![r] = NoResult]
    /\ UNCHANGED <<customers, invoices>>

\* One request at a time, each run to completion before the next starts.
Next ==
    \E r \in {"r1"} :
        \/ createInvoice(r, InvoiceForms)
        \/ createInvoice_INSERT(r)
        \/ updateInvoice(r, InvoiceForms)
        \/ updateInvoice_UPDATE(r)
        \/ deleteInvoice(r)
        \/ deleteInvoice_DELETE(r)
        \/ createCustomer(r, CustomerForms)
        \/ updateCustomer(r, CustomerForms)
        \/ customer_isEmailUnique(r)
        \/ createCustomer_INSERT(r)
        \/ updateCustomer_UPDATE(r)
        \/ deleteCustomer(r)
        \/ deleteCustomer_SELECT(r)
        \/ deleteCustomer_DELETE(r)
        \/ authenticate(r)
        \/ authenticate_signIn(r)
        \/ Finish(r)

Spec == Init /\ [][Next]_vars

\* Two requests against one store, their awaits interleaved in any order.
ConcNext ==
    \E r \in Requests :
        \/ createInvoice(r, ConcInvoiceForms)
        \/ createInvoice_INSERT(r)
        \/ updateInvoice(r, ConcInvoiceForms)
        \/ updateInvoice_UPDATE(r)
        \/ deleteInvoice(r)
        \/ deleteInvoice_DELETE(r)
        \/ createCustomer(r, ConcCustomerForms)
        \/ updateCustomer(r, ConcCustomerForms)
        \/ customer_isEmailUnique(r)
        \/ createCustomer_INSERT(r)
        \/ updateCustomer_UPDATE(r)
        \/ deleteCustomer(r)
        \/ deleteCustomer_SELECT(r)
        \/ deleteCustomer_DELETE(r)

ConcSpec == Init /\ [][ConcNext]_vars

\* ----------------------------------------------------------------- claims
Mutations ==
    {"createInvoice", "updateInvoice", "deleteInvoice",
     "createCustomer", "updateCustomer", "deleteCustomer"}
DatabaseErrors ==
    {"Database Error: Failed to Create Invoice.", "Database Error: Failed to Update Invoice.",
     "Database Error: Failed to Delete Invoice.", "Database Error: Failed to Create Customer.",
     "Database Error: Failed to Update Customer.", "Database Error: Failed to Delete Customer."}

Finished(r, ops) == pc[r] = "done" /\ call[r].op \in ops
Occurs(e, lg) == \E i \in 1..Len(lg) : lg[i] = e
Count(e, lg) == Cardinality({i \in 1..Len(lg) : lg[i] = e})
Index(e, lg) == CHOOSE i \in 1..Len(lg) : lg[i] = e
Precedes(a, b, lg) == Occurs(a, lg) /\ Occurs(b, lg) /\ Index(a, lg) < Index(b, lg)
Invalidated(lg) == Occurs(InvoicesPath, lg) \/ Occurs(CustomersPath, lg)

\* A row other than id's holds the email.
HeldByOther(rows, email, id) == \E c \in rows : c.email = email /\ c.id # id
Referenced(rows, id) == \E i \in rows : i.customer_id = id
ValidCustomerForm(form) ==
    /\ Has(form, "name") /\ Trim(form.name) # <<>>
    /\ Has(form, "email") /\ IsEmail(Trim(form.email))
EmailInUse(res) ==
    res.kind = "return" /\ res.hasErrors /\ res.errors.email = <<"Email is already is use.">>

\* C1: createCustomer and updateCustomer(id) with a valid name and email,
\* run alone.  When a row with a different id held the trimmed email, the
\* customers table is as it was, no INSERT/UPDATE was issued and, the
\* uniqueness query having answered, the result's errors.email is
\* ["Email is already is use."].  When in updateCustomer(id) no row other
\* than id's held it, the check passes and the UPDATE is issued.
C1_EmailUniqueness ==
    \A r \in Requests :
        Finished(r, {"createCustomer", "updateCustomer"}) /\ ValidCustomerForm(call[r].form)
        => LET held == HeldByOther(before[r].customers, Trim(call[r].form.email), call[r].id)
               answered == result[r].kind # "throw"
           IN  /\ held => /\ customers = before[r].customers
                          /\ ~Occurs("persist", log[r])
                          /\ answered => EmailInUse(result[r])
               /\ ~held /\ answered /\ call[r].op = "updateCustomer"
                      => Occurs("persist", log[r]) /\ ~EmailInUse(result[r])

\* C1's case: updateCustomer(id) of an existing row with an email another
\* row holds was refused.
C1_Witness ==
    \E r \in Requests :
        /\ Finished(r, {"updateCustomer"})
        /\ \E c \in before[r].customers : c.id = call[r].id
        /\ ValidCustomerForm(call[r].form)
        /\ HeldByOther(before[r].customers, Trim(call[r].form.email), call[r].id)
        /\ EmailInUse(result[r])

\* C2: deleteCustomer(id), run alone.  When an invoice referenced id, the
\* customers table is as it was (id's row is still there) and, the guard
\* query having answered, the message is the refusal.  When no invoice
\* referenced id and both statements were executed, id's row is gone and
\* the message is 'Deleted Customer.'.
C2_DeleteGuard ==
    \A r \in Requests :
        Finished(r, {"deleteCustomer"})
        => LET referenced == Referenced(before[r].invoices, call[r].id)
               failed == Occurs("error", log[r])
           IN  /\ referenced
                  => /\ customers = before[r].customers
                     /\ ~failed => result[r] = Return(FALSE, NoErrors,
                            "Cannot delete Customer who is already assigned to any Invoice.")
               /\ ~referenced /\ ~failed
                  => /\ ~\E c \in customers : c.id = call[r].id
                     /\ result[r] = Return(FALSE, NoErrors, "Deleted Customer.")

\* C2's case: the delete of an existing customer that an invoice references
\* was refused, and the row is still there.
C2_Witness ==
    \E r \in Requests :
        /\ Finished(r, {"deleteCustomer"})
        /\ Referenced(before[r].invoices, call[r].id)
        /\ \E c \in customers : c.id = call[r].id
        /\ result[r].message = "Cannot delete Customer who is already assigned to any Invoice."

\* C3: createInvoice and updateInvoice.  A form whose amount is non-numeric
\* or <= 0 gets an errors.amount entry, a form whose status is neither
\* 'pending' nor 'paid' gets an errors.status entry, and either way the
\* action returns (no throw, no redirect), issues no INSERT/UPDATE and
\* leaves the invoices table as it was.
BadAmount(form) ==
    ~Has(form, "amount") \/ Number(form.amount).nan \/ Number(form.amount).milli <= 0
BadStatus(form) == ~Has(form, "status") \/ form.status \notin {"pending", "paid"}

C3_InvalidInvoiceForm ==
    \A r \in Requests :
        Finished(r, {"createInvoice", "updateInvoice"})
        => LET form == call[r].form
               rejected == /\ result[r].kind = "return"
                           /\ result[r].hasErrors
                           /\ ~Occurs("persist", log[r])
                           /\ ~Invalidated(log[r])
                           /\ invoices = before[r].invoices
           IN  /\ BadAmount(form) => rejected /\ result[r].errors.amount # <<>>
               /\ BadStatus(form) => rejected /\ result[r].errors.status # <<>>

\* C3's case: an invoice form with the amount 0 and the status 'void' came
\* back with both field errors.
C3_Witness ==
    \E r \in Requests :
        /\ Finished(r, {"createInvoice", "updateInvoice"})
        /\ Has(call[r].form, "amount") /\ Number(call[r].form.amount) = Num(0)
        /\ Has(call[r].form, "status") /\ call[r].form.status = "void"
        /\ result[r].errors.amount # <<>> /\ result[r].errors.status # <<>>

\* C4 (as claimed): in every mutation, a failed SQL call ends the action
\* with a returned message that is one of the 'Database Error' messages;
\* nothing is thrown, invalidated or redirected.
C4_SqlFailureIsCaught ==
    \A r \in Requests :
        Finished(r, Mutations) /\ Occurs("error", log[r])
        => /\ result[r].kind = "return"
           /\ result[r].message \in DatabaseErrors
           /\ ~Invalidated(log[r])

\* C5: in every invocation of a mutation, run alone, the steps come in the
\* order validate, rule check, persist, invalidate, then redirect or
\* return.  The INSERT/UPDATE/DELETE is issued at most once, and only after
\* the validation and the rule check passed; the tables change at no other
\* step; the listing path is invalidated only after the statement
\* succeeded; a successful create or update ends in a redirect to its
\* listing path; a delete returns a message and never redirects.
Validates == {"createInvoice", "updateInvoice", "createCustomer", "updateCustomer"}
Redirects == Validates
ListingPath(op) ==
    IF op \in {"createInvoice", "updateInvoice", "deleteInvoice"}
    THEN InvoicesPath ELSE CustomersPath
ValidationPassed(r) ==
    IF call[r].op \in {"createInvoice", "updateInvoice"}
    THEN ~BadAmount(call[r].form) /\ ~BadStatus(call[r].form) /\ Has(call[r].form, "customerId")
    ELSE ValidCustomerForm(call[r].form)
RuleCheckPassed(r) ==
    IF call[r].op = "deleteCustomer"
    THEN ~Referenced(before[r].invoices, call[r].id)
    ELSE ~HeldByOther(before[r].customers, Trim(call[r].form.email), call[r].id)

C5_LinearSequence ==
    \A r \in Requests :
        call[r].op \in Mutations
        => LET lg == log[r]
               op == call[r].op
               path == ListingPath(op)
               other == IF path = InvoicesPath THEN CustomersPath ELSE InvoicesPath
               ruleStep == IF op = "deleteCustomer" THEN "guard" ELSE "check"
               wrote == Occurs("persist", lg) /\ ~Occurs("error", lg)
           IN  /\ \A e \in {"validate", "check", "guard", "persist", path, "redirect",
                            "return"} : Count(e, lg) <= 1
               /\ ~Occurs(other, lg)
               /\ Occurs("persist", lg)
                  => /\ op \in Validates
                        => Precedes("validate", "persist", lg) /\ ValidationPassed(r)
                     /\ op \in {"createCustomer", "updateCustomer", "deleteCustomer"}
                        => /\ Precedes(ruleStep, "persist", lg)
                           /\ op # "deleteCustomer" => Precedes("validate", ruleStep, lg)
                           /\ RuleCheckPassed(r)
               /\ ~Occurs("persist", lg) \/ Occurs("error", lg)
                  => /\ customers = before[r].customers
                     /\ invoices = before[r].invoices
               /\ Occurs(path, lg) => wrote /\ Index(path, lg) = Index("persist", lg) + 1
               /\ Occurs("redirect", lg)
                  => /\ op \in Redirects /\ Occurs(path, lg)
                     /\ Index("redirect", lg) = Index(path, lg) + 1
                     /\ Index("redirect", lg) = Len(lg)
               /\ pc[r] = "done" /\ wrote
                  => /\ Occurs(path, lg)
                     /\ op \in Redirects => result[r] = Redirect(path) /\ lg[Len(lg)] = "redirect"
                     /\ op \notin Redirects => result[r].kind = "return" /\ lg[Len(lg)] = "return"
               /\ op \notin Redirects => result[r].kind # "redirect"
               /\ result[r].kind = "redirect" => Occurs("redirect", lg)

\* C5's case: a createCustomer went through all five steps.
C5_Witness ==
    \E r \in Requests :
        /\ Finished(r, {"createCustomer"})
        /\ log[r] = <<"validate", "check", "persist", CustomersPath, "redirect">>
        /\ customers # before[r].customers

\* C6: from a customers table with distinct emails, after any sequence of
\* createCustomer, updateCustomer and deleteCustomer (and the other actions)
\* each run to completion before the next, no two rows with different ids
\* hold the same email.
C6_DistinctEmails ==
    \A c1, c2 \in customers : c1.id # c2.id => c1.email # c2.email

\* C6's case: a createCustomer added a row to a table that held another.
C6_Witness ==
    \E r \in Requests :
        /\ Finished(r, {"createCustomer"})
        /\ result[r].kind = "redirect"
        /\ before[r].customers # {}
        /\ Cardinality(customers) = Cardinality(before[r].customers) + 1

\* C7 (as claimed): the amount that createInvoice and updateInvoice write
\* is a positive integer number of cents, 100 times the submitted amount,
\* for every amount the validation accepts.
C7_IntegerCents ==
    \A r \in Requests :
        Finished(r, {"createInvoice", "updateInvoice"}) /\ result[r].kind = "redirect"
        => \A i \in invoices \ before[r].invoices :
               /\ IsInteger(i.amount)
               /\ i.amount.milli > 0
               /\ i.amount.milli = 100 * Number(call[r].form.amount).milli

\* C8: authenticate returns 'Invalid credentials.' exactly when signIn threw
\* an AuthError of type CredentialsSignin, 'Something went wrong.' when it
\* threw an AuthError of another type, rethrows what is no AuthError, and
\* returns no string when signIn succeeded.
C8_Authenticate ==
    \A r \in Requests :
        Finished(r, {"authenticate"})
        => LET o == data[r]
               res == result[r]
           IN  /\ (res.kind = "return" /\ res.message = "Invalid credentials.")
                  <=> (o.thrown /\ o.auth /\ o.type = "CredentialsSignin")
               /\ o.thrown /\ o.auth /\ o.type # "CredentialsSignin"
                  => res.kind = "return" /\ res.message = "Something went wrong."
               /\ o.thrown /\ ~o.auth => res.kind = "throw" /\ res.message = o.type
               /\ ~o.thrown => res.kind = "return" /\ res.message = ""

\* C8's case: signIn threw an AuthError that is no CredentialsSignin, and
\* the generic string came back.
C8_Witness ==
    \E r \in Requests :
        /\ Finished(r, {"authenticate"})
        /\ data[r].thrown /\ data[r].auth /\ data[r].type # "CredentialsSignin"
        /\ result[r].message = "Something went wrong."

\* C9: the uniqueness query and the INSERT/UPDATE that follows it are two
\* steps, and other requests' steps come between them.  The query sees the
\* rows in the table at its own step only: it passes exactly when no other
\* row holds the email then, whatever another request is about to write.
\* The INSERT/UPDATE, when the store executes it, writes the email whether
\* or not another row holds it by then, and the action redirects.
CustomerWrites == {"createCustomer", "updateCustomer"}

C9_CheckThenWrite ==
    [][\A r \in Requests :
          /\ pc[r] = "check" /\ call[r].op \in CustomerWrites /\ pc'[r] # "check"
             /\ ~Occurs("error", log'[r])
             => (pc'[r] = "persist"
                 <=> ~HeldByOther(customers, data[r].email, call[r].id))
          /\ pc[r] = "persist" /\ call[r].op \in CustomerWrites /\ pc'[r] = "done"
             /\ ~Occurs("error", log'[r])
             => /\ result'[r] = Redirect(CustomersPath)
                /\ call[r].op = "createCustomer"
                   => \E c \in customers' \ customers : c.email = data[r].email
                /\ call[r].op = "updateCustomer"
                   => /\ \A c \in customers' : c.id = call[r].id => c.email = data[r].email
                      /\ {c.id : c \in customers'} = {c.id : c \in customers}
      ]_vars

\* C9's case: from a table with distinct emails, two requests for different
\* customers carrying the same email both passed the check, both wrote and
\* both redirected, and two rows with different ids hold that email.
C9_Witness ==
    \E r, q \in Requests :
        /\ r # q
        /\ Finished(r, CustomerWrites) /\ Finished(q, CustomerWrites)
        /\ result[r].kind = "redirect" /\ result[q].kind = "redirect"
        /\ data[r].email = data[q].email
        /\ before[r].customers = before[q].customers
        /\ \A c1, c2 \in before[r].customers : c1.id # c2.id => c1.email # c2.email
        /\ \E c1, c2 \in customers :
               c1.id # c2.id /\ c1.email = data[r].email /\ c2.email = data[r].email

\* C10: the delete-guard query and the DELETE that follows it are two steps.
\* The guard sees the invoices in the table at its own step only; the
\* DELETE, when the store executes it, removes the customer row and the
\* action returns 'Deleted Customer.', whether or not an invoice references
\* the customer by then.
C10_GuardThenDelete ==
    [][\A r \in Requests :
          /\ pc[r] = "guard" /\ call[r].op = "deleteCustomer" /\ pc'[r] # "guard"
             /\ ~Occurs("error", log'[r])
             => (pc'[r] = "persist" <=> ~Referenced(invoices, call[r].id))
          /\ pc[r] = "persist" /\ call[r].op = "deleteCustomer" /\ pc'[r] = "done"
             /\ ~Occurs("error", log'[r])
             => /\ result'[r] = Return(FALSE, NoErrors, "Deleted Customer.")
                /\ ~\E c \in customers' : c.id = call[r].id
                /\ invoices' = invoices
      ]_vars

\* C10's case: a customer that no invoice referenced was deleted with
\* 'Deleted Customer.' while a createInvoice or updateInvoice of another
\* request wrote an invoice for it: the invoice references a removed row.
C10_Witness ==
    \E r, q \in Requests :
        /\ r # q
        /\ Finished(r, {"deleteCustomer"})
        /\ result[r] = Return(FALSE, NoErrors, "Deleted Customer.")
        /\ \E c \in before[r].customers : c.id = call[r].id
        /\ ~Referenced(before[r].invoices, call[r].id)
        /\ Finished(q, {"createInvoice", "updateInvoice"})
        /\ result[q].kind = "redirect"
        /\ data[q].customerId = call[r].id
        /\ Referenced(invoices, call[r].id)
        /\ ~\E c \in customers : c.id = call[r].id

=============================================================================
